---- MODULE Spec2Model ----
(***************************************************************************)
(* The co-op room server of Jonas-Review-Guesser (server/server.js): one   *)
(* room code, its GameState object, the connections of that room, the vote *)
(* activation timer and the room deletion timer.  Every action is one      *)
(* event-loop callback of the server, run to completion.                   *)
(***************************************************************************)
EXTENDS Integers, Sequences, FiniteSets, TLC

\* ---------------------------------------------------------------- bounds
\* connections the server closed whose close event is still to be delivered
MaxEvicted == 1
\* a round is not completed once a leaderboard entry holds this many credits
MaxScore == 1

\* ------------------------------------------------------------ JS values
Null == "null"
\* a deleted key of nextGameVotes reads as undefined
Undefined == -1
\* Math.max(0, undefined - 1)
NaN == -2

\* A userId is <<"id", x>> when the client chose it and <<"user_", c>> when it
\* is the string `user_${connectionId}` the server derives for connection c.
NoUserId == <<"none", <<"", 0>>>>
ClientIds == {<<"id", <<"A", 0>>>>, <<"id", <<"B", 0>>>>}
\* Connection ids (randomUUID values) are only compared for equality.  A
\* connection is named by the userId it presented and by its place: 0 while
\* it is in state.clients (the duplicate-connection loop leaves one such
\* connection per presented userId), k >= 1 once the server has closed it and
\* its close event is pending.  This leaves out the states that differ by a
\* renaming of the connections.
Tag(userId) ==
    IF userId[1] = "id" THEN userId[2][1]
    ELSE IF userId[1] = "none" THEN "anon" ELSE "re"
Conn(userId) == <<Tag(userId), 0>>
\* the connection that may come without a userId, and the id derived for it
AnonConn == <<"anon", 0>>
AnonId(c) == <<"user_", c>>
AllUserIds == {NoUserId, AnonId(AnonConn)} \cup ClientIds
Conns == {<<Tag(u), k>> : u \in AllUserIds, k \in 0 .. MaxEvicted}

GameIds == {"g1", "g2"}
Answers == {"a1", "a2"}
VoteOptions == {"raw", "smart"}
\* the first entries of the palette; a room of the model has at most three users
USER_COLORS == <<"#66C0F4", "#1E90FF", "#32CD32">>
\* `User ${persistentUserId.slice(-6)}`, the name a user is created with
DefaultName == "User"
\* the nicknames a user-ready message can carry
Nicknames == {"nick"}

\* The browser tabs that run the extension's client.  They belong to one
\* browser profile, so getOrCreateUserId reads the same coopUserId from
\* chrome.storage.local in each of them.
Tabs == {"t1", "t2"}
StoredUserId == <<"id", <<"A", 0>>>>
\* maxReconnectAttempts of the WebSocketClient and of coopState
maxReconnectAttempts == 5
\* a tab before its user joins the room
NewTab ==
    [ws |-> "none", roomId |-> FALSE, wsAttempts |-> 0,
     isReconnecting |-> FALSE, reconnectAttempts |-> 0, joined |-> FALSE]

VARIABLES
    roomExists,          \* rooms.has(roomId)
    users,               \* state.users: persistent userId -> User
    connectionToUserId,  \* state.connectionToUserId
    clients,             \* state.clients: the connections of the room
    wsUserId,            \* ws.userId of every connection not yet closed
    evicted,             \* connections closed by the server, close event pending
    stale,               \* evicted connections whose room object was deleted
    leaderboard,         \* state.leaderboard: userId -> entry
    currentGameId,       \* state.currentGameId
    roomStatus,          \* state.roomStatus
    currentGameStats,    \* state.currentGameStats
    correctAnswer,       \* state.correctAnswer
    nextGameVotes,       \* state.nextGameVotes
    nextGameIds,         \* state.nextGameIds
    selectedNextGame,    \* state.selectedNextGame
    roomColorAssignments, \* roomColorAssignments.get(roomId)
    activationTimer,     \* the pending setTimeout of a vote resolution
    deletionTimer,       \* roomDeletionTimeouts.has(roomId)
    lastOp,              \* history: the callback that ran last
    sent,                \* history: the messages the last callback sent
    sentState,           \* history: the gameState those messages carry
    droppedCorrect,      \* history: data.correctAnswer of the last guess, when
                         \* the room holds another one after it
    votedBefore,         \* history: the users whose recorded vote was cast
                         \* before the last activation callback ran
    creditedInRound,     \* history: the users credited since currentGameId
                         \* took its value
    tabs                 \* the client of every tab: ws is "open", "closing"
                         \* (closed by the server, onclose not yet run) or
                         \* "none"; roomId is wsClient.roomId being set;
                         \* wsAttempts is wsClient.reconnectAttempts;
                         \* isReconnecting and reconnectAttempts are
                         \* coopState's; joined is the user having joined

roomVars == <<users, connectionToUserId, clients, leaderboard, currentGameId,
              roomStatus, currentGameStats, correctAnswer, nextGameVotes,
              nextGameIds, selectedNextGame, roomColorAssignments>>
vars == <<roomExists, users, connectionToUserId, clients, wsUserId, evicted,
          stale, leaderboard, currentGameId, roomStatus, currentGameStats,
          correctAnswer, nextGameVotes, nextGameIds, selectedNextGame,
          roomColorAssignments, activationTimer, deletionTimer, lastOp, sent,
          sentState, droppedCorrect, votedBefore,
          creditedInRound, tabs>>

\* ------------------------------------------------------------- helpers
Max(a, b) == IF a >= b THEN a ELSE b


Without(f, k) == [x \in DOMAIN f \ {k} |-> f[x]]
Put(f, k, v) == [x \in DOMAIN f \cup {k} |-> IF x = k THEN v ELSE f[x]]

\* mutant: the filter compares with the connection id, which no entry holds
RemoveStatByConnectionId(stats, userId) == stats

\* mutant: the filter keeps nothing
RemoveAllStats(stats, userId) == <<>>

\* Array.prototype.filter(stat => stat.userId !== userId)
RemoveStat(stats, userId) == SelectSeq(stats, LAMBDA s : s.userId # userId)

StatsUserIds(stats) == {stats[i].userId : i \in 1 .. Len(stats)}
OnlineUserIds(us) == {u \in DOMAIN us : us[u].isOnline}

\* v || 1, v || 0: 0, NaN and undefined are falsy
Truthy(v) == v > 0
\* Math.max(0, (votes[o] || 1) - 1), then delete votes[o] when <= 0
RetractVote(v) ==
    LET n == Max(0, (IF Truthy(v) THEN v ELSE 1) - 1)
    IN  IF n <= 0 THEN Undefined ELSE n
\* Math.max(0, votes[o] - 1)
RemoveOldVote(v) == IF v < 0 THEN NaN ELSE Max(0, v - 1)
\* (votes[o] || 0) + 1
AddVote(v) == (IF Truthy(v) THEN v ELSE 0) + 1
\* votes.raw || 0
VoteCount(v) == IF Truthy(v) THEN v ELSE 0

\* ------------------------------------------------------------- messages
\* the gameState object of a message, without its users and leaderboard
\* fields, which every message fills from the room when it is sent
GameState(gameId, status, stats, correct, votes, ids, selected) ==
    [currentGameId |-> gameId, roomStatus |-> status, currentGameStats |-> stats,
     correctAnswer |-> correct, nextGameVotes |-> votes, nextGameIds |-> ids,
     selectedNextGame |-> selected]

\* the gameState of the room as the callback leaves it
RoomGameState ==
    GameState(currentGameId', roomStatus', currentGameStats', correctAnswer',
              nextGameVotes', nextGameIds', selectedNextGame')

\* a message that has no gameState field
NoGameState == GameState(Null, Null, <<>>, Null, Null, Null, Null)

\* the types of the messages the server builds with a gameState field
SnapshotTypes ==
    {"connected", "user-joined", "user-disconnected", "reply-counts-update",
     "next-game-vote-update", "next-game-selected", "reply-status-update",
     "leaderboard-reset"}

\* an outbound message: its recipient, its type, and the option and gameId
\* fields of a next-game-selected message
Msg(to, type) == [to |-> to, type |-> type, option |-> Null, gameId |-> Null]

\* broadcast(clients, message, exclude)
Broadcast(cs, type, exclude) == {Msg(c, type) : c \in cs \ exclude}

\* the callback sends the messages msgs, each built with the gameState given
Sends(msgs, gameState) ==
    /\ sent' = msgs
    /\ sentState' = IF msgs = {} THEN NoGameState ELSE gameState

\* ------------------------------------------------------------ room state
\* getRoomState: the GameState a room code starts with
FreshVotes == [raw |-> 0, smart |-> 0]
FreshIds == [raw |-> Null, smart |-> Null]
EmptyMap == [x \in {} |-> Null]
\* no vote activation is scheduled
NoActivation == [option |-> Null, gameId |-> Null]

FreshRoom ==
    /\ users' = EmptyMap
    /\ connectionToUserId' = EmptyMap
    /\ clients' = {}
    /\ leaderboard' = EmptyMap
    /\ currentGameId' = ""
    /\ roomStatus' = "in_progress"
    /\ currentGameStats' = <<>>
    /\ correctAnswer' = Null
    /\ nextGameVotes' = FreshVotes
    /\ nextGameIds' = FreshIds
    /\ selectedNextGame' = Null
    /\ roomColorAssignments' = {}

Init ==
    /\ roomExists = FALSE
    /\ users = EmptyMap
    /\ connectionToUserId = EmptyMap
    /\ clients = {}
    /\ wsUserId = EmptyMap
    /\ evicted = {}
    /\ stale = {}
    /\ leaderboard = EmptyMap
    /\ currentGameId = ""
    /\ roomStatus = "in_progress"
    /\ currentGameStats = <<>>
    /\ correctAnswer = Null
    /\ nextGameVotes = FreshVotes
    /\ nextGameIds = FreshIds
    /\ selectedNextGame = Null
    /\ roomColorAssignments = {}
    /\ activationTimer = NoActivation
    /\ deletionTimer = FALSE
    /\ lastOp = "init"
    /\ sent = {}
    /\ sentState = NoGameState
    /\ droppedCorrect = Null
    /\ votedBefore = {}
    /\ creditedInRound = {}
    /\ tabs = [t \in Tabs |-> NewTab]

\* ------------------------------------------------------------ connection
\* assignUserColor, for a user that has no color yet: the first color of the
\* palette that the room has not assigned
AssignUserColor(assignedColors) ==
    LET free == {i \in 1 .. Len(USER_COLORS) : USER_COLORS[i] \notin assignedColors}
    IN  USER_COLORS[CHOOSE i \in free : \A j \in free : i <= j]

\* the new User object of a first connection
NewUser(color) ==
    [isOnline |-> TRUE, hasReplied |-> FALSE, replyOption |-> Null,
     nextGameVote |-> Null, name |-> DefaultName, color |-> color]

\* mutant: the reconnection branch builds the user object anew
ReattachAsNewUser(u) == NewUser(u.color)

\* the reconnection branch: the existing User is marked online again
ReattachUser(u) ==
    [u EXCEPT !.isOnline = TRUE, !.hasReplied = FALSE, !.replyOption = Null]

\* mutant: the loop closes the old connection and leaves the room's answers
\* and tallies alone
EvictOneKeepingReplies(st, old) ==
    LET routed == old \in DOMAIN st.c2u
        oldUserId == st.c2u[old]
        known == routed /\ oldUserId \in DOMAIN st.users
    IN  [users |-> IF known
                   THEN [st.users EXCEPT ![oldUserId].isOnline = FALSE]
                   ELSE st.users,
         stats |-> st.stats,
         votes |-> st.votes,
         c2u |-> Without(st.c2u, old),
         leaderboard |-> st.leaderboard,
         colors |-> st.colors]

\* one iteration of the duplicate-connection loop; st holds the fields of the
\* room the loop writes
EvictOne(st, old) ==
    LET routed == old \in DOMAIN st.c2u
        oldUserId == st.c2u[old]
        known == routed /\ oldUserId \in DOMAIN st.users
        u == st.users[oldUserId]
    IN  [users |-> IF known
                   THEN [st.users EXCEPT ![oldUserId].isOnline = FALSE]
                   ELSE st.users,
         stats |-> IF known /\ u.replyOption # Null
                   THEN RemoveStat(st.stats, oldUserId)
                   ELSE st.stats,
         votes |-> IF known /\ u.nextGameVote # Null
                   THEN [st.votes EXCEPT ![u.nextGameVote] = RetractVote(@)]
                   ELSE st.votes,
         c2u |-> Without(st.c2u, old),
         leaderboard |-> st.leaderboard,
         colors |-> st.colors]

RECURSIVE EvictAll(_, _)
EvictAll(st, olds) ==
    IF olds = {} THEN st
    ELSE LET old == CHOOSE c \in olds : TRUE IN EvictAll(EvictOne(st, old), olds \ {old})

\* Array.from(clients).filter(c => c.userId === userId && c !== ws)
ExistingConnections(userId) ==
    IF userId = NoUserId THEN {}
    ELSE {c \in clients : wsUserId[c] = userId}

\* mutant: the reconnection branch starts the user's leaderboard entry afresh
AttachLosingScore(st, persistentUserId) ==
    IF persistentUserId \in DOMAIN st.users
    THEN [st EXCEPT !.users[persistentUserId] = ReattachUser(@),
                    !.stats = RemoveStat(@, persistentUserId),
                    !.leaderboard = Without(@, persistentUserId)]
    ELSE [st EXCEPT !.users = Put(@, persistentUserId,
                                  NewUser(AssignUserColor(st.colors))),
                    !.colors = @ \cup {AssignUserColor(st.colors)}]

\* the reconnection branch and the new-user branch of the connection handler;
\* st holds the fields of the room, the leaderboard among them
Attach(st, persistentUserId) ==
    IF persistentUserId \in DOMAIN st.users
    THEN [st EXCEPT !.users[persistentUserId] = ReattachUser(@),
                    !.stats = RemoveStat(@, persistentUserId)]
    ELSE [st EXCEPT !.users = Put(@, persistentUserId,
                                  NewUser(AssignUserColor(st.colors))),
                    !.colors = @ \cup {AssignUserColor(st.colors)}]

\* the identifiers a client can put in the URL: none, its own, or the
\* server-derived one it read from a snapshot
PresentableIds ==
    {NoUserId} \cup ClientIds \cup {u \in AllUserIds : u \in DOMAIN users}

\* the name of evicted connection old while its close event is pending
Pending(old) ==
    LET free == {k \in 1 .. MaxEvicted : <<old[1], k>> \notin evicted}
    IN  <<old[1], CHOOSE k \in free : \A j \in free : k <= j>>

\* wss.on('connection')
Connect(userId) ==
    LET c == Conn(userId)
        olds == ExistingConnections(userId)
        persistentUserId == IF userId # NoUserId THEN userId ELSE AnonId(c)
        evictedSt == EvictAll([users |-> users, stats |-> currentGameStats,
                               votes |-> nextGameVotes, c2u |-> connectionToUserId,
                               leaderboard |-> leaderboard,
                               colors |-> roomColorAssignments],
                              olds)
        exists == persistentUserId \in DOMAIN evictedSt.users
    IN  \* randomUUID(): an id no connection and no derived user id is using
        /\ c \notin clients \ olds
        /\ userId = NoUserId => AnonId(c) \notin DOMAIN users
        /\ Cardinality(evicted) + Cardinality(olds) <= MaxEvicted
        /\ \E st \in {Attach(evictedSt, persistentUserId)} :
            /\ roomExists' = TRUE
            /\ deletionTimer' = FALSE
            /\ clients' = (clients \ olds) \cup {c}
            /\ evicted' = evicted \cup {Pending(old) : old \in olds}
            /\ wsUserId' = [x \in (DOMAIN wsUserId \cup {c}) \cup {Pending(old) : old \in olds}
                               |-> IF x \in DOMAIN wsUserId /\ x # c THEN wsUserId[x] ELSE userId]
            /\ users' = st.users
            /\ currentGameStats' = st.stats
            /\ leaderboard' = st.leaderboard
            /\ nextGameVotes' = st.votes
            /\ connectionToUserId' = Put(st.c2u, c, persistentUserId)
            /\ roomColorAssignments' = st.colors
            /\ votedBefore' = votedBefore
            /\ droppedCorrect' = Null
            /\ lastOp' = IF olds # {} THEN "connect-evict"
                         ELSE IF exists THEN "connect-reattach" ELSE "connect-new"
            /\ UNCHANGED <<stale, currentGameId, roomStatus, correctAnswer,
                           nextGameIds, selectedNextGame, activationTimer>>
            /\ Sends({Msg(c, "connected")}
                        \cup Broadcast((clients \ olds) \cup {c}, "user-joined", {c}),
                     RoomGameState)

\* the user's state after its connection closed
OfflineUser(u) ==
    [u EXCEPT !.isOnline = FALSE, !.hasReplied = FALSE, !.replyOption = Null,
              !.nextGameVote = Null]

\* mutant: the close handler takes the user from the socket's userId
UserIdOfSocket(c) == wsUserId[c]

\* state.connectionToUserId[connectionId], NoUserId when there is no entry
UserIdOf(c) ==
    IF c \in DOMAIN connectionToUserId THEN connectionToUserId[c] ELSE NoUserId

\* ws.on('close'), for a connection of the room object that still exists
CloseLive(c) ==
    LET userId == UserIdOf(c)
        known == userId \in DOMAIN users
        user == users[userId]
        left == clients \ {c}
    IN  /\ IF left = {} /\ DOMAIN users = {}
           THEN \* rooms.delete(roomId): no users at all
                /\ FreshRoom
                /\ roomExists' = FALSE
                /\ deletionTimer' = FALSE
                /\ stale' = evicted \ {c}
           ELSE /\ currentGameStats' =
                     IF known /\ user.isOnline
                     THEN RemoveStat(currentGameStats, userId)
                     ELSE currentGameStats
                /\ nextGameVotes' =
                     IF known /\ user.isOnline /\ user.nextGameVote # Null
                     THEN [nextGameVotes EXCEPT ![user.nextGameVote] = RetractVote(@)]
                     ELSE nextGameVotes
                /\ users' = IF known THEN [users EXCEPT ![userId] = OfflineUser(@)]
                            ELSE users
                /\ connectionToUserId' = Without(connectionToUserId, c)
                /\ clients' = left
                /\ deletionTimer' = IF left = {} THEN TRUE ELSE deletionTimer
                /\ stale' = stale
                /\ UNCHANGED <<roomExists, leaderboard, currentGameId, roomStatus,
                               correctAnswer, nextGameIds, selectedNextGame,
                               roomColorAssignments>>
        /\ Sends(Broadcast(left, "user-disconnected", {}), RoomGameState)
        /\ votedBefore' = IF left = {} /\ DOMAIN users = {} THEN {}
                          ELSE IF known THEN votedBefore \ {userId} ELSE votedBefore
        /\ droppedCorrect' = Null
        /\ lastOp' = IF c \in evicted THEN "close-evicted"
                     ELSE IF known /\ userId \in StatsUserIds(currentGameStats)
                     THEN "close-answered" ELSE "close"

\* ws.on('close'), for a connection whose room object was deleted: the
\* closure's state has users and no clients, so a deletion is scheduled
CloseStale(c) ==
    /\ deletionTimer' = TRUE
    /\ stale' = stale \ {c}
    /\ votedBefore' = votedBefore
    /\ droppedCorrect' = Null
    /\ lastOp' = "close-stale"
    /\ Sends({}, NoGameState)
    /\ UNCHANGED roomExists
    /\ UNCHANGED roomVars

Close(c) ==
    /\ c \in clients \cup evicted
    /\ IF c \in stale THEN CloseStale(c) ELSE CloseLive(c)
    /\ evicted' = evicted \ {c}
    /\ wsUserId' = Without(wsUserId, c)
    /\ UNCHANGED activationTimer

\* mutant: the callback keeps a room that has users, online or not
SafeToDeleteWithoutUsers == roomExists /\ clients = {} /\ DOMAIN users = {}

\* mutant: the callback deletes whatever room the code names
SafeToDeleteUnchecked == roomExists

\* the callback's re-check: rooms.get(roomId) exists, has no clients and no
\* user that is online
SafeToDelete == roomExists /\ clients = {} /\ OnlineUserIds(users) = {}

\* the setTimeout callback of the close handler (30 s)
DeletionTimerFires ==
    /\ deletionTimer
    \* the 1 s activation timer was set before this 30 s one and fires first
    /\ activationTimer = NoActivation
    /\ deletionTimer' = FALSE
    /\ IF SafeToDelete
       THEN /\ FreshRoom
            /\ roomExists' = FALSE
            /\ stale' = evicted
       ELSE /\ UNCHANGED <<roomExists, stale>>
            /\ UNCHANGED roomVars
    /\ votedBefore' = IF SafeToDelete THEN {} ELSE votedBefore
    /\ droppedCorrect' = Null
    /\ lastOp' = "deletion-timer"
    /\ Sends({}, NoGameState)
    /\ UNCHANGED <<wsUserId, evicted, activationTimer>>

\* ---------------------------------------------------------------- guess
\* the connections a message can arrive from: open ones, and ones the server
\* closed whose close event has not been delivered yet
Senders == clients \cup (evicted \ stale)

\* const userId = connectionToUserId[ws.connectionId]; if (!userId) return;
\* const user = users[userId]; if (!user || !user.isOnline) return;
Accepted(c) ==
    /\ c \in DOMAIN connectionToUserId
    /\ connectionToUserId[c] \in DOMAIN users
    /\ users[connectionToUserId[c]].isOnline

\* mutant: the quorum is read from the hasReplied flags
AllRepliedByFlag(us, stats) ==
    /\ OnlineUserIds(us) # {}
    /\ \A u \in OnlineUserIds(us) : us[u].hasReplied

\* the allReplied condition of handleGuess
AllReplied(us, stats) ==
    LET onlineUsers == OnlineUserIds(us)
        statsUserIds == StatsUserIds(stats)
        usersWhoActuallyReplied == {u \in onlineUsers : u \in statsUserIds}
        allStatsAreOnline ==
            /\ Len(stats) > 0
            /\ \A i \in 1 .. Len(stats) : stats[i].userId \in onlineUsers
    IN  /\ Cardinality(onlineUsers) > 0
        /\ Cardinality(onlineUsers) = Len(stats)
        /\ Cardinality(usersWhoActuallyReplied) = Cardinality(onlineUsers)
        /\ allStatsAreOnline

NoEntry == [correctAnswers |-> 0, failedAnswers |-> 0]

\* mutant: isCorrect is not looked at
UpdateLeaderboardEntryAsCorrect(lb, userId, isCorrect) ==
    LET entry == IF userId \in DOMAIN lb THEN lb[userId] ELSE NoEntry
    IN  Put(lb, userId, [entry EXCEPT !.correctAnswers = @ + 1])

\* updateLeaderboardEntry
UpdateLeaderboardEntry(lb, userId, isCorrect) ==
    LET entry == IF userId \in DOMAIN lb THEN lb[userId] ELSE NoEntry
    IN  Put(lb, userId,
            IF isCorrect
            THEN [entry EXCEPT !.correctAnswers = @ + 1]
            ELSE [entry EXCEPT !.failedAnswers = @ + 1])

\* currentGameStats.forEach(stat => updateLeaderboardEntry(...))
RECURSIVE CreditAll(_, _, _)
CreditAll(lb, stats, correct) ==
    IF stats = <<>> THEN lb
    ELSE CreditAll(UpdateLeaderboardEntry(lb, Head(stats).userId,
                                          Head(stats).answerValue = correct),
                   Tail(stats), correct)

Credits(lb, userId) ==
    IF userId \in DOMAIN lb
    THEN lb[userId].correctAnswers + lb[userId].failedAnswers
    ELSE 0

\* mutant: a new game leaves the reply flags as they are
ClearRepliesSkipped(us) == us

\* users.forEach(u => { u.hasReplied = false; u.replyOption = null })
ClearReplies(us) ==
    [u \in DOMAIN us |-> [us[u] EXCEPT !.hasReplied = FALSE, !.replyOption = Null]]

\* mutant: every guess that names a game starts a round
IsNewGameWhenGiven(gameId, current) == gameId # Null

\* data.gameId && state.currentGameId !== data.gameId
IsNewGame(gameId, current) == gameId # Null /\ current # gameId

\* mutant: the correct answer of the message is stored whenever it has one
StoredCorrectLatest(correct, stored, isNewGame) ==
    IF correct # Null THEN correct ELSE stored

\* state.correctAnswer after "Store correct answer if provided"
StoredCorrect(correct, stored, isNewGame) ==
    IF correct # Null /\ (stored = Null \/ isNewGame) THEN correct ELSE stored

\* handleGuess from the new-game test to the leaderboard update, as a
\* function of the fields of the room it reads: what it leaves in them
GuessResult(us, stats, status, stored, current, lb, userId, gameId, guess, correct) ==
    LET isNewGame == IsNewGame(gameId, current)
    IN  IF status = "completed" /\ ~isNewGame
        THEN [ignored |-> TRUE, isNewGame |-> isNewGame, completes |-> FALSE,
              users |-> us, stats |-> stats, status |-> status, correct |-> stored,
              gameId |-> current, leaderboard |-> lb]
        ELSE LET stats0 == IF isNewGame THEN <<>> ELSE stats
                 status0 == IF isNewGame THEN "in_progress" ELSE status
                 correct0 == IF isNewGame THEN Null ELSE stored
                 users0 == IF isNewGame THEN ClearReplies(us) ELSE us
                 correct1 == StoredCorrect(correct, correct0, isNewGame)
                 stats1 == Append(RemoveStat(stats0, userId),
                                  [userId |-> userId, answerValue |-> guess])
                 users1 == [users0 EXCEPT ![userId].replyOption = guess,
                                          ![userId].hasReplied = TRUE]
                 completes == /\ AllReplied(users1, stats1)
                              /\ status0 = "in_progress"
                              /\ correct1 # Null
             IN  [ignored |-> FALSE, isNewGame |-> isNewGame, completes |-> completes,
                  users |-> users1, stats |-> stats1,
                  status |-> IF completes THEN "completed" ELSE status0,
                  correct |-> correct1,
                  gameId |-> IF isNewGame THEN gameId ELSE current,
                  leaderboard |-> IF completes THEN CreditAll(lb, stats1, correct1)
                                  ELSE lb]

\* data.correctAnswer when the room holds another answer after the guess
Dropped(correct, stored) ==
    IF correct # Null /\ correct # stored THEN correct ELSE Null

\* handleGuess; gameId and correct are Null when the message has no such field
HandleGuess(c, gameId, guess, correct) ==
    /\ c \in Senders
    /\ IF ~Accepted(c)
       THEN /\ votedBefore' = votedBefore
            /\ droppedCorrect' = Null
            /\ lastOp' = "guess-dropped"
            /\ Sends({}, NoGameState)
            /\ UNCHANGED roomVars
       ELSE \E r \in {GuessResult(users, currentGameStats, roomStatus, correctAnswer,
                                   currentGameId, leaderboard, connectionToUserId[c],
                                   gameId, guess, correct)} :
                IF r.ignored
                THEN /\ votedBefore' = votedBefore
                     /\ droppedCorrect' = Dropped(correct, r.correct)
                     /\ lastOp' = "guess-ignored"
                     /\ Sends({}, NoGameState)
                     /\ UNCHANGED roomVars
                ELSE /\ r.completes =>
                           \A u \in StatsUserIds(r.stats) : Credits(leaderboard, u) < MaxScore
                     /\ currentGameId' = r.gameId
                     /\ correctAnswer' = r.correct
                     /\ currentGameStats' = r.stats
                     /\ users' = r.users
                     /\ roomStatus' = r.status
                     /\ leaderboard' = r.leaderboard
                     /\ votedBefore' = votedBefore
                     /\ droppedCorrect' = Dropped(correct, r.correct)
                     /\ lastOp' = IF r.completes THEN "guess-completes"
                                  ELSE IF r.isNewGame THEN "guess-new-game"
                                  ELSE "guess"
                     /\ UNCHANGED <<connectionToUserId, clients, nextGameVotes,
                                    nextGameIds, selectedNextGame,
                                    roomColorAssignments>>
                     /\ Sends(Broadcast(clients, "reply-counts-update", {}),
                              RoomGameState)
    /\ UNCHANGED <<roomExists, wsUserId, evicted, stale, activationTimer, deletionTimer>>

\* ----------------------------------------------------------------- vote
\* mutant: > instead of >=
SelectedOptionStrict(rawVotes, smartVotes) ==
    IF rawVotes > smartVotes THEN "raw" ELSE "smart"

\* rawVotes >= smartVotes ? 'raw' : 'smart'
SelectedOption(rawVotes, smartVotes) ==
    IF rawVotes >= smartVotes THEN "raw" ELSE "smart"

\* mutant: the candidate id is used whether or not one is stored
SelectedGameIdStored(ids, option, current) == ids[option]

\* state.nextGameIds[selectedOption] || state.currentGameId
SelectedGameId(ids, option, current) ==
    IF ids[option] # Null THEN ids[option] ELSE current

\* onlineUsers.length > 0 && onlineUsers.every(u => u.nextGameVote !== null)
AllVoted(us) ==
    /\ OnlineUserIds(us) # {}
    /\ \A u \in OnlineUserIds(us) : us[u].nextGameVote # Null

\* mutant: the session resolves whenever every online user has a vote
ResolvesWheneverAllVoted(us, selected) == AllVoted(us)

\* allVoted && !state.selectedNextGame
Resolves(us, selected) == AllVoted(us) /\ selected = Null

\* the reset of every user when a vote resolves
ClearVotes(us) ==
    [u \in DOMAIN us |-> [us[u] EXCEPT !.nextGameVote = Null, !.hasReplied = FALSE,
                                       !.replyOption = Null]]

\* mutant: the error goes out with broadcast
ErrorReplyToAll(c) == {Msg(x, "error") : x \in clients}

\* ws.send of an error message to the sender; nothing leaves on a socket the
\* server has closed
ErrorReply(c) == IF c \in clients THEN {Msg(c, "error")} ELSE {}

\* handleNextGameVote; gameId is Null when the message has no gameId
HandleNextGameVote(c, option, gameId) ==
    /\ c \in Senders
    /\ IF ~Accepted(c)
       THEN /\ votedBefore' = votedBefore
            /\ droppedCorrect' = Null
            /\ lastOp' = "vote-dropped"
            /\ Sends({}, NoGameState)
            /\ UNCHANGED roomVars
            /\ UNCHANGED activationTimer
       ELSE IF option \notin VoteOptions
       THEN /\ votedBefore' = votedBefore
            /\ droppedCorrect' = Null
            /\ lastOp' = "vote-invalid"
            /\ Sends(ErrorReply(c), NoGameState)
            /\ UNCHANGED roomVars
            /\ UNCHANGED activationTimer
       ELSE LET userId == connectionToUserId[c]
                user == users[userId]
                votes1 == IF user.nextGameVote # Null
                          THEN [nextGameVotes EXCEPT ![user.nextGameVote] = RemoveOldVote(@)]
                          ELSE nextGameVotes
                users1 == [users EXCEPT ![userId].nextGameVote = option]
                votes2 == [votes1 EXCEPT ![option] = AddVote(@)]
                ids1 == IF gameId # Null THEN [nextGameIds EXCEPT ![option] = gameId]
                        ELSE nextGameIds
                resolves == Resolves(users1, selectedNextGame)
                selectedOption == SelectedOption(VoteCount(votes2.raw), VoteCount(votes2.smart))
                selectedGameId == SelectedGameId(ids1, selectedOption, currentGameId)
            IN  /\ nextGameVotes' = votes2
                /\ nextGameIds' = ids1
                \* the broadcast comes before the resolution
                /\ Sends(Broadcast(clients, "next-game-vote-update", {}),
                         GameState(currentGameId, roomStatus, currentGameStats,
                                   correctAnswer, votes2, ids1, selectedNextGame))
                /\ IF resolves
                   THEN /\ selectedNextGame' = selectedOption
                        /\ currentGameStats' = <<>>
                        /\ roomStatus' = "in_progress"
                        /\ correctAnswer' = Null
                        /\ users' = ClearVotes(users1)
                        /\ currentGameId' = selectedGameId
                        /\ activationTimer' = [option |-> selectedOption,
                                               gameId |-> selectedGameId]
                        /\ votedBefore' = {}
                        /\ droppedCorrect' = Null
                        /\ lastOp' = "vote-resolved"
                   ELSE /\ users' = users1
                        /\ votedBefore' = votedBefore \ {userId}
                        /\ droppedCorrect' = Null
                        /\ lastOp' = "vote"
                        /\ UNCHANGED <<selectedNextGame, currentGameStats, roomStatus,
                                       correctAnswer, currentGameId, activationTimer>>
                /\ UNCHANGED <<connectionToUserId, clients, leaderboard,
                               roomColorAssignments>>
    /\ UNCHANGED <<roomExists, wsUserId, evicted, stale, deletionTimer>>

\* the users that have a vote recorded
VotesRecorded(us) == {u \in DOMAIN us : us[u].nextGameVote # Null}

\* mutant: the callback also resets the round it announces as empty
ActivationFiresResettingRound ==
    /\ activationTimer # NoActivation
    /\ nextGameVotes' = FreshVotes
    /\ nextGameIds' = FreshIds
    /\ selectedNextGame' = Null
    /\ currentGameStats' = <<>>
    /\ roomStatus' = "in_progress"
    /\ correctAnswer' = Null
    /\ activationTimer' = NoActivation
    /\ votedBefore' = VotesRecorded(users)
    /\ droppedCorrect' = Null
    /\ lastOp' = "activation"
    /\ Sends({[to |-> c, type |-> "next-game-selected",
                option |-> activationTimer.option,
                gameId |-> activationTimer.gameId] : c \in clients},
             GameState(activationTimer.gameId, "in_progress", <<>>, Null,
                       FreshVotes, FreshIds, Null))
    /\ UNCHANGED <<roomExists, users, connectionToUserId, clients, wsUserId, evicted,
                   stale, leaderboard, currentGameId, roomColorAssignments,
                   deletionTimer>>

\* mutant: the callback does nothing when the room has no connection
ActivationFiresIfOccupied ==
    /\ activationTimer # NoActivation
    /\ clients # {}
    /\ nextGameVotes' = FreshVotes
    /\ nextGameIds' = FreshIds
    /\ selectedNextGame' = Null
    /\ activationTimer' = NoActivation
    /\ votedBefore' = VotesRecorded(users)
    /\ droppedCorrect' = Null
    /\ lastOp' = "activation"
    /\ Sends({[to |-> c, type |-> "next-game-selected",
                option |-> activationTimer.option,
                gameId |-> activationTimer.gameId] : c \in clients},
             GameState(activationTimer.gameId, "in_progress", <<>>, Null,
                       FreshVotes, FreshIds, Null))
    /\ UNCHANGED <<roomExists, users, connectionToUserId, clients, wsUserId, evicted,
                   stale, leaderboard, currentGameId, roomStatus, currentGameStats,
                   correctAnswer, roomColorAssignments, deletionTimer>>

\* the setTimeout callback of a vote resolution (1 s)
ActivationFires ==
    /\ activationTimer # NoActivation
    /\ nextGameVotes' = FreshVotes
    /\ nextGameIds' = FreshIds
    /\ selectedNextGame' = Null
    /\ activationTimer' = NoActivation
    /\ votedBefore' = VotesRecorded(users)
    /\ droppedCorrect' = Null
    /\ lastOp' = "activation"
    /\ Sends({[to |-> c, type |-> "next-game-selected",
                option |-> activationTimer.option,
                gameId |-> activationTimer.gameId] : c \in clients},
             GameState(activationTimer.gameId, "in_progress", <<>>, Null,
                       FreshVotes, FreshIds, Null))
    /\ UNCHANGED <<roomExists, users, connectionToUserId, clients, wsUserId, evicted,
                   stale, leaderboard, currentGameId, roomStatus, currentGameStats,
                   correctAnswer, roomColorAssignments, deletionTimer>>

\* ------------------------------------------------- user-ready and reset
\* handleUserReady; cleared is data.hasReplied === false, nickname is Null
\* when the message has none
HandleUserReady(c, cleared, nickname) ==
    /\ c \in Senders
    /\ IF ~Accepted(c)
       THEN /\ votedBefore' = votedBefore
            /\ droppedCorrect' = Null
            /\ lastOp' = "user-ready-dropped"
            /\ Sends({}, NoGameState)
            /\ UNCHANGED roomVars
       ELSE LET userId == connectionToUserId[c]
                users1 == IF cleared
                          THEN [users EXCEPT ![userId].hasReplied = FALSE,
                                             ![userId].replyOption = Null]
                          ELSE users
            IN  /\ users' = IF nickname # Null
                            THEN [users1 EXCEPT ![userId].name = nickname]
                            ELSE users1
                /\ currentGameStats' = IF cleared
                                       THEN RemoveStat(currentGameStats, userId)
                                       ELSE currentGameStats
                /\ votedBefore' = votedBefore
                /\ droppedCorrect' = Null
                /\ lastOp' = "user-ready"
                /\ UNCHANGED <<connectionToUserId, clients, leaderboard, currentGameId,
                               roomStatus, correctAnswer, nextGameVotes, nextGameIds,
                               selectedNextGame, roomColorAssignments>>
                /\ Sends(Broadcast(clients, "reply-status-update", {}), RoomGameState)
    /\ UNCHANGED <<roomExists, wsUserId, evicted, stale, activationTimer, deletionTimer>>

\* mutant: the reset also empties the answers of the round
HandleResetLeaderboardAndRound(c) ==
    /\ c \in Senders
    /\ leaderboard' = EmptyMap
    /\ users' = [u \in DOMAIN users |-> [users[u] EXCEPT !.hasReplied = FALSE]]
    /\ currentGameStats' = <<>>
    /\ votedBefore' = votedBefore
    /\ droppedCorrect' = Null
    /\ lastOp' = "reset-leaderboard"
    /\ UNCHANGED <<roomExists, connectionToUserId, clients, wsUserId, evicted, stale,
                   currentGameId, roomStatus, correctAnswer,
                   nextGameVotes, nextGameIds, selectedNextGame, roomColorAssignments,
                   activationTimer, deletionTimer>>
    /\ Sends(Broadcast(clients, "leaderboard-reset", {}), RoomGameState)

\* handleResetLeaderboard: no check of the sender
HandleResetLeaderboard(c) ==
    /\ c \in Senders
    /\ leaderboard' = EmptyMap
    /\ users' = [u \in DOMAIN users |-> [users[u] EXCEPT !.hasReplied = FALSE]]
    /\ votedBefore' = votedBefore
    /\ droppedCorrect' = Null
    /\ lastOp' = "reset-leaderboard"
    /\ UNCHANGED <<roomExists, connectionToUserId, clients, wsUserId, evicted, stale,
                   currentGameId, roomStatus, currentGameStats, correctAnswer,
                   nextGameVotes, nextGameIds, selectedNextGame, roomColorAssignments,
                   activationTimer, deletionTimer>>
    /\ Sends(Broadcast(clients, "leaderboard-reset", {}), RoomGameState)

\* ------------------------------------------------------- other messages
\* what else a connection can send: text that JSON.parse rejects, the types
\* whose handlers do nothing, the type whose handler is not defined, and a
\* type the switch does not know
OtherKinds == {"unparseable", "correct-guess", "wrong-guess", "next-game", "unknown"}

\* ws.on('message') for the messages that reach no handler of the room state
HandleOther(c, kind) ==
    /\ c \in Senders
    /\ kind \in OtherKinds
    /\ votedBefore' = votedBefore
    /\ droppedCorrect' = Null
    /\ lastOp' = kind
    /\ Sends(CASE kind \in {"unparseable", "next-game"} -> ErrorReply(c)
               [] kind \in {"correct-guess", "wrong-guess"} -> {}
               [] kind = "unknown" -> Broadcast(clients, "unknown", {c}),
             NoGameState)
    /\ UNCHANGED roomVars
    /\ UNCHANGED <<roomExists, wsUserId, evicted, stale, activationTimer, deletionTimer>>

\* ------------------------------------------------------- specifications
\* the client enables its two vote buttons once its own user has replied
VoteButtonEnabled(c) ==
    Accepted(c) => users[connectionToUserId[c]].hasReplied

\* One step of the server, with the fields of the inbound requests drawn
\* from the given sets: env.userIds (the userId URL parameter), env.gameIds,
\* env.answers and env.corrects (a guess), env.options and env.voteGameIds
\* (a next-game vote), env.nicknames (a user-ready message).
\* a close event of a connection the server closed is pending and env
\* delivers it before anything else
Prompt(env) == env.lateClose \/ evicted = {}

\* the history of credits, kept by the specifications that ask for it: a
\* step that changes currentGameId or deletes the room starts it anew, and a
\* step that completes a round adds the users it credits
Credited(env) ==
    creditedInRound' =
        IF env.trackCredits /\ roomExists'
        THEN (IF currentGameId' # currentGameId THEN {} ELSE creditedInRound)
             \cup (IF lastOp' = "guess-completes"
                   THEN StatsUserIds(currentGameStats') ELSE {})
        ELSE {}

ConnectStep(env) ==
    /\ Prompt(env)
    /\ \E userId \in env.userIds \cap PresentableIds : Connect(userId)
    /\ Credited(env)
    /\ UNCHANGED tabs

CloseStep(env) ==
    (\E c \in Conns : Close(c)) /\ Credited(env) /\ UNCHANGED tabs

DeletionStep(env) ==
    Prompt(env) /\ DeletionTimerFires /\ Credited(env) /\ UNCHANGED tabs

GuessStep(env) ==
    /\ Prompt(env)
    /\ \E c \in Conns, gameId \in env.gameIds, guess \in env.answers,
          correct \in env.corrects : HandleGuess(c, gameId, guess, correct)
    /\ Credited(env)
    /\ UNCHANGED tabs

VoteStep(env) ==
    /\ Prompt(env)
    /\ \E c \in Conns, option \in env.options, gameId \in env.voteGameIds :
          /\ env.voteAnyTime \/ VoteButtonEnabled(c)
          /\ HandleNextGameVote(c, option, gameId)
    /\ Credited(env)
    /\ UNCHANGED tabs

ActivationStep(env) ==
    Prompt(env) /\ ActivationFires /\ Credited(env) /\ UNCHANGED tabs

UserReadyStep(env) ==
    /\ Prompt(env)
    /\ \E c \in Conns, cleared \in BOOLEAN, nickname \in env.nicknames :
          HandleUserReady(c, cleared, nickname)
    /\ Credited(env)
    /\ UNCHANGED tabs

ResetStep(env) ==
    /\ Prompt(env)
    /\ \E c \in Conns : HandleResetLeaderboard(c)
    /\ Credited(env)
    /\ UNCHANGED tabs

OtherStep(env) ==
    /\ Prompt(env)
    /\ \E c \in Conns, kind \in OtherKinds : HandleOther(c, kind)
    /\ Credited(env)
    /\ UNCHANGED tabs

NextOn(env) ==
    \/ ConnectStep(env)
    \/ CloseStep(env)
    \/ DeletionStep(env)
    \/ GuessStep(env)
    \/ VoteStep(env)
    \/ ActivationStep(env)
    \/ UserReadyStep(env)
    \/ ResetStep(env)

\* Rounds: every client supplies its own identifier, guesses may be right or
\* wrong and carry the correct answer, votes are cast from the enabled
\* button, and the close event of a connection the server closed is delivered
\* before the next event.
RoundEnv ==
    [userIds |-> ClientIds,
     gameIds |-> {"g1"}, answers |-> Answers, corrects |-> {"a1"},
     options |-> {"raw"}, voteGameIds |-> {Null}, voteAnyTime |-> FALSE,
     nicknames |-> {Null}, lateClose |-> FALSE,
     trackCredits |-> FALSE]

\* Votes: both options and an unknown one, cast at any time; guesses never
\* carry the correct answer.
VoteEnv ==
    [userIds |-> ClientIds,
     gameIds |-> {"g1"}, answers |-> {"a1"}, corrects |-> {Null},
     options |-> VoteOptions \cup {"other"}, voteGameIds |-> {Null},
     voteAnyTime |-> TRUE, nicknames |-> {Null}, lateClose |-> FALSE,
     trackCredits |-> FALSE]

\* Identity: connections with a client-chosen userId, without one, and with
\* the derived one; close events of closed connections arrive at any time.
IdentityEnv ==
    [userIds |-> AllUserIds \ {<<"id", <<"B", 0>>>>},
     gameIds |-> {"g1"}, answers |-> {"a1"}, corrects |-> {Null},
     options |-> {"raw"}, voteGameIds |-> {Null}, voteAnyTime |-> FALSE,
     nicknames |-> {Null}, lateClose |-> TRUE,
     trackCredits |-> FALSE]

\* Games: a guess names either game, so a round is also restarted by a guess
\* for the other game, and may or may not carry the correct answer; every
\* answer is a1, which is right once the correct answer is known.
GameEnv ==
    [userIds |-> ClientIds,
     gameIds |-> GameIds, answers |-> {"a1"}, corrects |-> {"a1", Null},
     options |-> {"raw"}, voteGameIds |-> {Null}, voteAnyTime |-> FALSE,
     nicknames |-> {Null}, lateClose |-> FALSE,
     trackCredits |-> FALSE]

\* Messages: guesses that may lack the gameId and never carry the correct
\* answer, and every kind of message that reaches no handler of the room
\* state.
MessageEnv ==
    [userIds |-> ClientIds,
     gameIds |-> {"g1", Null}, answers |-> {"a1"}, corrects |-> {Null},
     options |-> {"raw"}, voteGameIds |-> {Null}, voteAnyTime |-> FALSE,
     nicknames |-> {Null}, lateClose |-> FALSE,
     trackCredits |-> FALSE]

\* Activation: votes for either option, cast from the enabled button, that
\* carry the candidate game id.
ActivationEnv ==
    [userIds |-> ClientIds,
     gameIds |-> {"g1"}, answers |-> {"a1"}, corrects |-> {Null},
     options |-> VoteOptions, voteGameIds |-> {"g2"},
     voteAnyTime |-> FALSE, nicknames |-> {Null}, lateClose |-> FALSE,
     trackCredits |-> FALSE]

\* Lifecycle: the connections of one client come and go, and the close events
\* of the connections the server closed arrive at any time, also after the
\* room was deleted and created again.
LifecycleEnv ==
    [userIds |-> {<<"id", <<"A", 0>>>>},
     gameIds |-> {"g1"}, answers |-> {"a1"}, corrects |-> {"a1"},
     options |-> {"raw"}, voteGameIds |-> {Null}, voteAnyTime |-> FALSE,
     nicknames |-> {Null}, lateClose |-> TRUE,
     trackCredits |-> FALSE]

\* Reconnects: two clients that take nicknames, earn credits, leave and come
\* back.
ReconnectEnv ==
    [userIds |-> ClientIds,
     gameIds |-> {"g1"}, answers |-> {"a1"}, corrects |-> {"a1"},
     options |-> {"raw"}, voteGameIds |-> {Null}, voteAnyTime |-> FALSE,
     nicknames |-> {Null} \cup Nicknames, lateClose |-> FALSE,
     trackCredits |-> FALSE]

\* Quorum: two clients answer rounds of one game; every guess is a1 and
\* carries the correct answer a1.
QuorumEnv ==
    [userIds |-> ClientIds,
     gameIds |-> {"g1"}, answers |-> {"a1"}, corrects |-> {"a1"},
     options |-> {"raw"}, voteGameIds |-> {Null}, voteAnyTime |-> FALSE,
     nicknames |-> {Null}, lateClose |-> FALSE,
     trackCredits |-> FALSE]

\* Correct answers: two clients answer rounds of one game, and their guesses
\* carry either answer as the correct one, so the clients may disagree.
CorrectEnv ==
    [userIds |-> ClientIds,
     gameIds |-> {"g1"}, answers |-> {"a1"}, corrects |-> Answers,
     options |-> {"raw"}, voteGameIds |-> {Null}, voteAnyTime |-> FALSE,
     nicknames |-> {Null}, lateClose |-> FALSE,
     trackCredits |-> FALSE]

\* Three participants: two clients with their own identifiers and one
\* connection without an identifier; votes for either option at any time,
\* as a client of another build or a script can send them.
TrioEnv ==
    [userIds |-> ClientIds \cup {NoUserId},
     gameIds |-> {"g1"}, answers |-> {"a1"}, corrects |-> {Null},
     options |-> VoteOptions, voteGameIds |-> {Null},
     voteAnyTime |-> TRUE, nicknames |-> {Null}, lateClose |-> FALSE,
     trackCredits |-> FALSE]

Next == NextOn(RoundEnv)
Spec == Init /\ [][Next]_vars

VoteNext == NextOn(VoteEnv)
VoteSpec == Init /\ [][VoteNext]_vars

GameNext == NextOn(GameEnv)
GameSpec == Init /\ [][GameNext]_vars

QuorumNext == NextOn(QuorumEnv)
QuorumSpec == Init /\ [][QuorumNext]_vars

CorrectNext == NextOn(CorrectEnv)
CorrectSpec == Init /\ [][CorrectNext]_vars

\* the three participants connect, vote and leave; none of them answers
TrioNext ==
    \/ ConnectStep(TrioEnv)
    \/ CloseStep(TrioEnv)
    \/ DeletionStep(TrioEnv)
    \/ VoteStep(TrioEnv)
    \/ ActivationStep(TrioEnv)
TrioSpec == Init /\ [][TrioNext]_vars

MessageNext == NextOn(MessageEnv) \/ OtherStep(MessageEnv)
MessageSpec == Init /\ [][MessageNext]_vars

\* the close event of a connection the server closed
EvictedCloseStep == \E c \in evicted : Close(c)
\* that event as a step of the server
EvictedCloses(env) == EvictedCloseStep /\ Credited(env) /\ UNCHANGED tabs

\* Credits: the rounds of the quorum environment, with the history of the
\* credits of the current game id.
CreditEnv == [QuorumEnv EXCEPT !.trackCredits = TRUE]
CreditNext == NextOn(CreditEnv)
CreditSpec == Init /\ [][CreditNext]_vars

\* A timer that was set fires, whatever else happens meanwhile, and the close
\* event of a socket the server closed is delivered.
ActivationNext == NextOn(ActivationEnv)
ActivationSpec ==
    /\ Init /\ [][ActivationNext]_vars
    /\ SF_vars(ActivationStep(ActivationEnv))
    /\ WF_vars(EvictedCloses(ActivationEnv))

LifecycleNext == NextOn(LifecycleEnv)
LifecycleSpec == Init /\ [][LifecycleNext]_vars

\* A timer that was set and is not cleared fires: the 30 s deletion timer
\* and, before it, the 1 s activation timer.
LifecycleFairSpec ==
    /\ LifecycleSpec
    /\ WF_vars(DeletionStep(LifecycleEnv))
    /\ WF_vars(ActivationStep(LifecycleEnv))

ReconnectNext == NextOn(ReconnectEnv)
ReconnectSpec == Init /\ [][ReconnectNext]_vars

IdentityNext == NextOn(IdentityEnv)
IdentitySpec == Init /\ [][IdentityNext]_vars

\* ------------------------------------------------------------- the client
\* everything but the tabs
serverVars == <<roomVars, roomExists, wsUserId, evicted, stale,
                activationTimer, deletionTimer, lastOp, sent, sentState,
                droppedCorrect, votedBefore, creditedInRound>>

\* ws.onclose of the WebSocketClient and the 'reconnect-needed' handler of
\* coopManager that it calls: the event is emitted unless disconnect() ran,
\* and the handler sets the reconnect timer unless one is set or the attempts
\* are used up (client.isNavigating is never set)
SocketClosed(tab) ==
    LET emits == tab.wsAttempts < maxReconnectAttempts /\ tab.roomId
        schedules == /\ emits
                     /\ ~tab.isReconnecting
                     /\ tab.reconnectAttempts < maxReconnectAttempts
    IN  [tab EXCEPT !.ws = "none",
                    !.isReconnecting = tab.isReconnecting \/ schedules,
                    !.reconnectAttempts = IF schedules THEN @ + 1 ELSE @]

\* connectToRoom: the tab connects with the stored userId; ws.onopen and
\* the 'connected' handler reset its counters, and the server closes the
\* socket of the tab that was connected with that userId
ClientConnects(t) ==
    /\ Connect(StoredUserId)
    /\ tabs' = [x \in Tabs |->
                  IF x = t
                  THEN [tabs[t] EXCEPT !.ws = "open", !.roomId = TRUE,
                                       !.wsAttempts = 0,
                                       !.isReconnecting = FALSE,
                                       !.reconnectAttempts = 0,
                                       !.joined = TRUE]
                  ELSE IF tabs[x].ws = "open"
                       THEN [tabs[x] EXCEPT !.ws = "closing"]
                       ELSE tabs[x]]

\* Clients: the users of two tabs join one room, play rounds of one game and
\* may leave; a tab whose socket the server closed reconnects by itself.
ClientsEnv ==
    [userIds |-> {StoredUserId},
     gameIds |-> {"g1"}, answers |-> {"a1"}, corrects |-> {"a1"},
     options |-> {"raw"}, voteGameIds |-> {Null}, voteAnyTime |-> FALSE,
     nicknames |-> {Null}, lateClose |-> TRUE,
     trackCredits |-> FALSE]

\* the user of the tab joins the room
TabJoins(t) ==
    /\ ~tabs[t].joined
    /\ tabs[t].ws = "none"
    /\ ClientConnects(t)
    /\ Credited(ClientsEnv)

\* the close event of the tab's socket, which the server closed
TabSocketCloses(t) ==
    /\ tabs[t].ws = "closing"
    /\ tabs' = [tabs EXCEPT ![t] = SocketClosed(tabs[t])]
    /\ UNCHANGED serverVars

\* the reconnect timer of the tab fires
TabReconnects(t) ==
    /\ tabs[t].isReconnecting
    /\ tabs[t].ws = "none"
    /\ ClientConnects(t)
    /\ Credited(ClientsEnv)

\* disconnect(): the user of the tab leaves the room
TabLeaves(t) ==
    /\ tabs[t].ws = "open"
    /\ Close(Conn(StoredUserId))
    /\ tabs' = [tabs EXCEPT ![t] = [@ EXCEPT !.ws = "none", !.roomId = FALSE,
                                             !.wsAttempts = maxReconnectAttempts]]
    /\ Credited(ClientsEnv)

TabJoinStep == \E t \in Tabs : TabJoins(t)
TabSocketCloseStep == \E t \in Tabs : TabSocketCloses(t)
TabReconnectStep == \E t \in Tabs : TabReconnects(t)
TabLeaveStep == \E t \in Tabs : TabLeaves(t)

ClientsNext ==
    \/ TabJoinStep
    \/ TabSocketCloseStep
    \/ TabReconnectStep
    \/ TabLeaveStep
    \/ EvictedCloses(ClientsEnv)
    \/ DeletionStep(ClientsEnv)
    \/ GuessStep(ClientsEnv)
    \/ VoteStep(ClientsEnv)
    \/ ActivationStep(ClientsEnv)
    \/ UserReadyStep(ClientsEnv)
    \/ ResetStep(ClientsEnv)

\* A close event is delivered, on the server and in the tab, and a reconnect
\* timer that was set fires.
ClientsSpec ==
    /\ Init /\ [][ClientsNext]_vars
    /\ WF_vars(EvictedCloses(ClientsEnv))
    /\ WF_vars(TabSocketCloseStep)
    /\ WF_vars(TabReconnectStep)

\* ---------------------------------------------------------------- claims
\* C1: while the room exists, a connect, reconnect, eviction or disconnect
\* leaves every leaderboard entry as it was; an entry changes only when a
\* guess completes the round or the leaderboard is reset.
C1_ScoresSurviveReconnects ==
    [][LET connectionOps ==
               {"connect-new", "connect-reattach", "connect-evict", "close",
                "close-answered", "close-evicted", "close-stale"}
       IN  roomExists' =>
             /\ lastOp' \in connectionOps => leaderboard' = leaderboard
             /\ leaderboard' # leaderboard =>
                    lastOp' \in {"guess-completes", "reset-leaderboard"}]_vars

\* a participant with a credit, the only one of the room, has just been
\* reattached to a new connection
C1_Witness ==
    /\ lastOp = "connect-reattach"
    /\ \E u \in DOMAIN leaderboard :
          /\ DOMAIN users = {u}
          /\ users[u].isOnline
          /\ leaderboard[u].correctAnswers = 1

\* C2: a guess recorded while the round is in progress completes the round in
\* that step exactly when, with the answer recorded, the participants with an
\* answer are the online participants, there is one, and the correct answer
\* is stored.
C2_GuessCompletesIffQuorum ==
    [][(/\ lastOp' \in {"guess", "guess-new-game", "guess-completes"}
        /\ roomStatus = "in_progress") =>
          (roomStatus' = "completed"
              <=> /\ StatsUserIds(currentGameStats') = OnlineUserIds(users')
                  /\ OnlineUserIds(users') # {}
                  /\ correctAnswer' # Null)]_vars

\* the second of two online participants has just completed the round
C2_Witness ==
    /\ lastOp = "guess-completes"
    /\ roomStatus = "completed"
    /\ Cardinality(OnlineUserIds(users)) = 2
    /\ Len(currentGameStats) = 2

\* C3: whenever someone is online, every online participant has an answer
\* and the correct answer is stored, the round is completed.
C3_QuorumImpliesCompleted ==
    (/\ OnlineUserIds(users) # {}
     /\ OnlineUserIds(users) \subseteq StatsUserIds(currentGameStats)
     /\ correctAnswer # Null)
        => roomStatus = "completed"

\* C4: no two connections of the room are routed to the same participant.
C4_OneConnectionPerParticipant ==
    \A c1, c2 \in clients \cap DOMAIN connectionToUserId :
        connectionToUserId[c1] = connectionToUserId[c2] => c1 = c2

\* C5: every recorded answer belongs to an online participant, no participant
\* has two, so there are at most as many answers as online participants.
C5_AnswersBelongToOnline ==
    /\ \A i \in 1 .. Len(currentGameStats) :
          /\ currentGameStats[i].userId \in OnlineUserIds(users)
          /\ \A j \in 1 .. Len(currentGameStats) :
                currentGameStats[i].userId = currentGameStats[j].userId => i = j
    /\ Len(currentGameStats) <= Cardinality(OnlineUserIds(users))

\* a participant that had answered has just disconnected, the other one's
\* answer is still recorded
C5_Witness ==
    /\ lastOp = "close-answered"
    /\ Len(currentGameStats) = 1
    /\ Cardinality(DOMAIN users \ OnlineUserIds(users)) = 1

\* C6: the step that completes a round adds one to the correct count of every
\* participant whose recorded answer is the stored correct answer, one to the
\* incorrect count of every other participant with a recorded answer, and
\* nothing to anyone else; no other step increases a count.
C6_CompletionCreditsOnce ==
    [][LET completion ==
               /\ lastOp' \in {"guess", "guess-new-game", "guess-completes"}
               /\ roomStatus' = "completed"
           Entry(lb, u) == IF u \in DOMAIN lb THEN lb[u] ELSE NoEntry
           answer(u) ==
               LET i == CHOOSE j \in 1 .. Len(currentGameStats') :
                            currentGameStats'[j].userId = u
               IN  currentGameStats'[i].answerValue
       IN  \A u \in DOMAIN users' \cup DOMAIN leaderboard \cup DOMAIN leaderboard' :
             LET old == Entry(leaderboard, u)
                 new == Entry(leaderboard', u)
             IN  IF completion /\ u \in StatsUserIds(currentGameStats')
                 THEN IF answer(u) = correctAnswer'
                      THEN /\ new.correctAnswers = old.correctAnswers + 1
                           /\ new.failedAnswers = old.failedAnswers
                      ELSE /\ new.correctAnswers = old.correctAnswers
                           /\ new.failedAnswers = old.failedAnswers + 1
                 ELSE /\ new.correctAnswers <= old.correctAnswers
                      /\ new.failedAnswers <= old.failedAnswers]_vars

\* a round has just completed with one right and one wrong answer
C6_Witness ==
    /\ lastOp = "guess-completes"
    /\ \E u, v \in DOMAIN leaderboard :
          /\ leaderboard[u] = [correctAnswers |-> 1, failedAnswers |-> 0]
          /\ leaderboard[v] = [correctAnswers |-> 0, failedAnswers |-> 1]

\* C7: the two vote tallies add up to at most the number of online
\* participants.
C7_TalliesWithinOnline ==
    VoteCount(nextGameVotes.raw) + VoteCount(nextGameVotes.smart)
        <= Cardinality(OnlineUserIds(users))

\* C8: whenever someone is online and every online participant has a vote, a
\* winning option is selected.
C8_AllVotedImpliesResolved ==
    AllVoted(users) => selectedNextGame # Null

\* C9: a resolution selects the option with the strictly higher tally, and
\* the first option, raw, when the tallies are equal.
C9_HigherTallyWinsTieRaw ==
    [][lastOp' = "vote-resolved" =>
         LET raw == VoteCount(nextGameVotes'.raw)
             smart == VoteCount(nextGameVotes'.smart)
         IN  /\ raw > smart => selectedNextGame' = "raw"
             /\ smart > raw => selectedNextGame' = "smart"
             /\ raw = smart => selectedNextGame' = "raw"]_vars

\* a vote has just resolved on a tie
C9_Witness ==
    /\ lastOp = "vote-resolved"
    /\ nextGameVotes.raw = 1
    /\ nextGameVotes.smart = 1
    /\ selectedNextGame = "raw"

\* C10: a vote by an online participant that already has a vote, cast while
\* no option is selected, takes one (not below zero) from the tally of the old
\* option and adds one to the tally of the new option; for the same option
\* both tallies stay as they were.
C10_RevoteMovesOneVote ==
    [][\A c \in Conns, option \in VoteOptions :
         LET old == users[connectionToUserId[c]].nextGameVote
             before(o) == VoteCount(nextGameVotes[o])
             after(o) == VoteCount(nextGameVotes'[o])
         IN  (/\ c \in clients
              /\ Accepted(c)
              /\ selectedNextGame = Null
              /\ old # Null
              /\ HandleNextGameVote(c, option, Null))
             => IF old = option
                THEN \A o \in VoteOptions : after(o) = before(o)
                ELSE /\ after(old) = Max(0, before(old) - 1)
                     /\ after(option) = before(option) + 1]_vars

\* C11: the step in which a vote resolves leaves both tallies at zero.
C11_TalliesResetAtResolution ==
    [][lastOp' = "vote-resolved" =>
          /\ VoteCount(nextGameVotes'.raw) = 0
          /\ VoteCount(nextGameVotes'.smart) = 0]_vars

\* C12: a pending activation eventually fires; until it fires nothing cancels
\* or replaces it; it is set by a resolution for the selected option and the
\* game id the resolution made current; when it fires it announces that option
\* and game id to every connection of the room and leaves both tallies at
\* zero, both candidate ids cleared and no option selected.
C12_ActivationFiresOnce ==
    /\ (activationTimer # NoActivation) ~> (lastOp = "activation")
    /\ [][/\ activationTimer # NoActivation =>
                \/ activationTimer' = activationTimer
                \/ lastOp' = "activation" /\ activationTimer' = NoActivation
          /\ lastOp' = "vote-resolved" =>
                /\ activationTimer = NoActivation
                /\ activationTimer' = [option |-> selectedNextGame',
                                       gameId |-> currentGameId']
                /\ nextGameIds'[selectedNextGame'] # Null =>
                       currentGameId' = nextGameIds'[selectedNextGame']
          /\ lastOp' = "activation" =>
                /\ activationTimer.option = selectedNextGame
                /\ {m.to : m \in sent'} = clients
                /\ \A m \in sent' : /\ m.type = "next-game-selected"
                                      /\ m.option = activationTimer.option
                                      /\ m.gameId = activationTimer.gameId
                /\ nextGameVotes' = FreshVotes
                /\ nextGameIds' = FreshIds
                /\ selectedNextGame' = Null]_vars

\* an activation has just fired for a candidate game id after every
\* connection left the room
C12_Witness ==
    /\ lastOp = "activation"
    /\ clients = {}
    /\ currentGameId = "g2"

\* C13: a vote for an unknown option by a connection of an online participant
\* sends one error message, to that connection, and leaves the room state and
\* the pending activation as they were.
C13_InvalidOptionRejected ==
    [][\A c \in Conns :
         (Accepted(c) /\ HandleNextGameVote(c, "other", Null))
            => /\ sent' = {Msg(c, "error")}
               /\ UNCHANGED roomVars
               /\ UNCHANGED activationTimer]_vars

\* an unknown option has just been rejected while two connections are in the
\* room and a vote is counted
C13_Witness ==
    /\ lastOp = "vote-invalid"
    /\ Cardinality(clients) = 2
    /\ Cardinality(sent) = 1
    /\ nextGameVotes.raw = 1

\* C14: a message that cannot be parsed or whose type is unknown changes no
\* room state, is answered with an error to its sender, and nothing goes to
\* any other connection.
C14_BadMessageOnlyToSender ==
    [][\A c \in clients, kind \in {"unparseable", "unknown"} :
         HandleOther(c, kind)
            => /\ UNCHANGED roomVars
               /\ sent' = {Msg(c, "error")}]_vars

\* C15: a valid vote by a connection of an online participant, processed while
\* an option is selected and its activation is pending, changes no tally, no
\* participant's vote and no candidate id, and sends no error.
C15_VoteAfterResolutionIgnored ==
    [][\A c \in Conns, option \in VoteOptions :
         (/\ Accepted(c)
          /\ selectedNextGame # Null
          /\ HandleNextGameVote(c, option, Null))
            => /\ nextGameVotes' = nextGameVotes
               /\ nextGameIds' = nextGameIds
               /\ \A u \in DOMAIN users : users'[u].nextGameVote = users[u].nextGameVote
               /\ \A m \in sent' : m.type # "error"]_vars

\* C16: a guess that names the current game, from a connection of an online
\* participant, processed while the round is completed, changes nothing in
\* the room and sends nothing.
C16_LateGuessIgnored ==
    [][(roomStatus = "completed"
          /\ lastOp' \in {"guess", "guess-new-game", "guess-completes", "guess-ignored"})
         => \A c \in clients, guess \in RoundEnv.answers, correct \in RoundEnv.corrects :
               (Accepted(c) /\ HandleGuess(c, currentGameId, guess, correct))
                  => /\ UNCHANGED roomVars
                     /\ sent' = {}]_vars

\* a guess for the current game has just been ignored in a completed round
\* with two connections in the room
C16_Witness ==
    /\ lastOp = "guess-ignored"
    /\ roomStatus = "completed"
    /\ currentGameId = "g1"
    /\ Cardinality(clients) = 2

\* C17: a guess that names the current game keeps every answer recorded by
\* another participant as it was, and adds no answer but the sender's.
C17_SameGameKeepsAnswers ==
    [][lastOp' \in {"guess", "guess-new-game", "guess-completes", "guess-ignored"}
         => \A c \in clients, guess \in RoundEnv.answers, correct \in RoundEnv.corrects :
               (Accepted(c) /\ HandleGuess(c, currentGameId, guess, correct))
                  => LET sender == connectionToUserId[c]
                     IN  /\ \A i \in 1 .. Len(currentGameStats) :
                               currentGameStats[i].userId # sender =>
                                  \E j \in 1 .. Len(currentGameStats') :
                                     currentGameStats'[j] = currentGameStats[i]
                         /\ StatsUserIds(currentGameStats')
                               \subseteq StatsUserIds(currentGameStats) \cup {sender}]_vars

\* the second participant's guess for the current game has just been recorded
\* next to the first one's
C17_Witness ==
    /\ lastOp = "guess-completes"
    /\ currentGameId = "g1"
    /\ Len(currentGameStats) = 2
    /\ currentGameStats[1].answerValue # currentGameStats[2].answerValue

\* C18: every step that removes the room starts in a state with no live
\* connection and no online participant, whichever handler or timer takes it
\* and whenever that timer was scheduled.
C18_RemovedOnlyWhenEmpty ==
    [][(roomExists /\ ~roomExists')
          => (clients = {} /\ OnlineUserIds(users) = {})]_vars

\* a deletion timer has just fired while a connection was live in the room,
\* and the room was kept
C18_Witness ==
    /\ lastOp = "deletion-timer"
    /\ roomExists
    /\ clients # {}
    /\ OnlineUserIds(users) # {}

\* C19: when the room has lost its last connection and its deletion timer is
\* pending, a connection that presents the identifier of a participant of
\* the room cancels the timer, keeps the room, and is routed to that same
\* participant, online again, with the leaderboard, the name and the color as
\* they were and no participant added.
C19_ReconnectRestores ==
    [][\A u \in AllUserIds :
         (/\ roomExists /\ clients = {} /\ deletionTimer
          /\ u \in DOMAIN users
          /\ Connect(u))
            => /\ roomExists' /\ ~deletionTimer'
               /\ DOMAIN users' = DOMAIN users
               /\ \E c \in clients' : connectionToUserId'[c] = u
               /\ users'[u].isOnline
               /\ users'[u].name = users[u].name
               /\ users'[u].color = users[u].color
               /\ leaderboard' = leaderboard]_vars

\* a participant that had scored and taken a nickname has just reconnected
\* to a room that had no connection left
C19_Witness ==
    /\ lastOp = "connect-reattach"
    /\ Cardinality(clients) = 1
    /\ ~deletionTimer
    /\ \E u \in DOMAIN users :
          /\ users[u].isOnline
          /\ users[u].name \in Nicknames
          /\ u \in DOMAIN leaderboard
          /\ leaderboard[u].correctAnswers = 1

\* C20: in every state, a room with a live connection has no deletion timer
\* pending.
C20_NoTimerWhileConnected == clients # {} => ~deletionTimer

\* C21: a room that has lost its last connection is eventually removed from
\* the registry unless a connection arrives, and the step that removes it
\* also removes its color assignments and its deletion timer entry.
C21_EmptyRoomRemoved ==
    /\ (roomExists /\ clients = {}) ~> (~roomExists \/ clients # {})
    /\ [][(roomExists /\ ~roomExists')
            => (roomColorAssignments' = {} /\ ~deletionTimer')]_vars

\* the deletion timer has just removed a room that had users and colors
C21_Witness ==
    /\ lastOp = "deletion-timer"
    /\ ~roomExists
    /\ roomColorAssignments = {}
    /\ ~deletionTimer

\* C22: when a connection evicts an older one that presented the same
\* identifier, the connected message it receives carries the room as the
\* handler leaves it: the older connection has no routing entry, its
\* participant has no answer in the answer set of the message, and the tally
\* of the message for the option that participant had voted for is one lower
\* (or stays at zero).
C22_EvictionBeforeHandshake ==
    [][\A userId \in AllUserIds \ {NoUserId} :
         (ExistingConnections(userId) # {} /\ Connect(userId))
            => LET c == Conn(userId)
                   u == connectionToUserId[c]
                   v == users[u].nextGameVote
               IN  /\ \A e \in evicted' \ evicted : e \notin DOMAIN connectionToUserId'
                   /\ \E m \in sent' : m.to = c /\ m.type = "connected"
                   /\ sentState' = RoomGameState
                   /\ u \notin StatsUserIds(sentState'.currentGameStats)
                   /\ v # Null =>
                         VoteCount(sentState'.nextGameVotes[v])
                            = Max(0, VoteCount(nextGameVotes[v]) - 1)]_vars

\* a connection has just evicted the connection of a participant that had
\* answered and voted, while another participant is connected
C22_Witness ==
    /\ lastOp = "connect-evict"
    /\ Cardinality(clients) = 2
    /\ \E u \in DOMAIN users : users[u].isOnline /\ users[u].nextGameVote # Null
                                  /\ u \notin StatsUserIds(currentGameStats)
                                  /\ nextGameVotes[users[u].nextGameVote] = Undefined
    /\ \E m \in sent : m.type = "connected"
    /\ sentState.nextGameVotes.raw = Undefined
    /\ sentState.currentGameStats = currentGameStats

\* C23: a reset-leaderboard empties the leaderboard, so that every
\* participant's counts are zero, and keeps the participants, their names,
\* colors, online flags, recorded votes and routing, the round (game id,
\* status, answers, correct answer) and the vote session (tallies, candidate
\* ids, selected option).
C23_ResetKeepsRoundAndVotes ==
    [][\A c \in Conns :
         HandleResetLeaderboard(c)
            => /\ leaderboard' = EmptyMap
               /\ \A u \in DOMAIN users' : Credits(leaderboard', u) = 0
               /\ DOMAIN users' = DOMAIN users
               /\ \A u \in DOMAIN users :
                     /\ users'[u].name = users[u].name
                     /\ users'[u].color = users[u].color
                     /\ users'[u].isOnline = users[u].isOnline
                     /\ users'[u].nextGameVote = users[u].nextGameVote
               /\ UNCHANGED <<connectionToUserId, currentGameId, roomStatus,
                              currentGameStats, correctAnswer, nextGameVotes,
                              nextGameIds, selectedNextGame>>]_vars

\* the leaderboard has just been reset in a completed round that credited
\* two participants, one of which had voted
C23_Witness ==
    /\ lastOp = "reset-leaderboard"
    /\ leaderboard = EmptyMap
    /\ roomStatus = "completed"
    /\ Len(currentGameStats) = 2
    /\ nextGameVotes.raw = 1

\* C24: every message sent with a gameState carries the room as it is when
\* the message is sent.  A vote update is sent before the resolution, so it
\* is compared with the round as it was and the tallies as they are after the
\* vote was counted; every other message, the activation announcement among
\* them, with the room as its callback leaves it.
C24_SnapshotIsRoomState ==
    [][\A m \in sent' :
         m.type \in SnapshotTypes =>
            sentState' =
               IF m.type = "next-game-vote-update"
               THEN GameState(currentGameId, roomStatus, currentGameStats,
                              correctAnswer, nextGameVotes', nextGameIds',
                              selectedNextGame)
               ELSE RoomGameState]_vars

\* C25: once a participant exists under the identifier the server derived
\* for a connection that supplied none, no step routes a further connection
\* to that participant.
C25_AnonymousNeverReattached ==
    [][LET u == AnonId(AnonConn)
       IN  u \in DOMAIN users =>
              \A c \in DOMAIN connectionToUserId' :
                 (c \notin DOMAIN connectionToUserId \/ connectionToUserId[c] # u)
                    => connectionToUserId'[c] # u]_vars

\* the values the two reply flags of a user can hold, in step or not
ReplyFlags == {<<FALSE, Null>>, <<TRUE, "a1">>, <<FALSE, "a2">>}

\* the users with their reply flags replaced by those of flags
WithReplyFlags(us, flags) ==
    [u \in DOMAIN us |-> [us[u] EXCEPT !.hasReplied = flags[u][1],
                                      !.replyOption = flags[u][2]]]

\* C26: in every state, for every guess a connection of an online
\* participant can send, the round status and the leaderboard the guess
\* leaves are the same whatever the hasReplied and replyOption flags of the
\* participants hold.
C26_QuorumIgnoresReplyFlags ==
    \A c \in clients :
       Accepted(c) =>
          \A gameId \in GameIds, correct \in {"a1", Null} :
             \A asIs \in {GuessResult(users, currentGameStats, roomStatus,
                                       correctAnswer, currentGameId, leaderboard,
                                       connectionToUserId[c], gameId, "a1", correct)},
                flags \in [DOMAIN users -> ReplyFlags] :
                \A other \in {GuessResult(WithReplyFlags(users, flags),
                                           currentGameStats, roomStatus,
                                           correctAnswer, currentGameId,
                                           leaderboard, connectionToUserId[c],
                                           gameId, "a1", correct)} :
                   /\ other.status = asIs.status
                   /\ other.leaderboard = asIs.leaderboard
                   /\ other.ignored = asIs.ignored

\* a guess has just completed a round although the flag of a participant
\* whose answer is recorded says it has not replied
C26_Witness ==
    /\ lastOp = "guess-completes"
    /\ \E u \in OnlineUserIds(users) :
          u \in StatsUserIds(currentGameStats) /\ ~users[u].hasReplied

\* C27: the step that resolves a vote session empties the answers, sets the
\* status to in_progress, clears the correct answer and clears every
\* participant's reply flags and vote; a guess processed while the activation
\* is pending is recorded unless the round has meanwhile completed; and the
\* activation leaves the answers, the status, the correct answer, the game
\* id, the participants and the leaderboard as they are.
C27_RoundOpensAtResolution ==
    [][/\ lastOp' = "vote-resolved" =>
             /\ activationTimer = NoActivation
             /\ currentGameStats' = <<>>
             /\ roomStatus' = "in_progress"
             /\ correctAnswer' = Null
             /\ \A u \in DOMAIN users' : /\ ~users'[u].hasReplied
                                         /\ users'[u].replyOption = Null
                                         /\ users'[u].nextGameVote = Null
       /\ (activationTimer # NoActivation
             /\ lastOp' \in {"guess", "guess-new-game", "guess-completes",
                             "guess-ignored"}) =>
             \A c \in clients, gameId \in QuorumEnv.gameIds,
                guess \in QuorumEnv.answers, correct \in QuorumEnv.corrects :
                (Accepted(c) /\ HandleGuess(c, gameId, guess, correct))
                   => \/ roomStatus = "completed" /\ ~IsNewGame(gameId, currentGameId)
                      \/ \E i \in 1 .. Len(currentGameStats') :
                            currentGameStats'[i] = [userId |-> connectionToUserId[c],
                                                    answerValue |-> guess]
       /\ lastOp' = "activation" =>
             UNCHANGED <<currentGameStats, roomStatus, correctAnswer, currentGameId,
                         users, leaderboard>>]_vars

\* the activation has just fired after a guess recorded while it was
\* pending completed the round: the answers and the status are still there
C27_Witness ==
    /\ lastOp = "activation"
    /\ Len(currentGameStats) = 2
    /\ roomStatus = "completed"
    /\ correctAnswer # Null

\* C28: a guess that names a game other than the current one leaves the
\* named game current, the sender's answer as the only recorded answer, the
\* correct answer of the message (or none) stored, the sender marked as
\* replied with that answer, every other participant's reply flags cleared,
\* and the status in_progress unless the sender is the only online
\* participant.
C28_NewGameStartsWithSender ==
    [][lastOp' \in {"guess-new-game", "guess-completes"} =>
         \A c \in clients, gameId \in GameEnv.gameIds, guess \in GameEnv.answers,
            correct \in GameEnv.corrects :
            (/\ Accepted(c)
             /\ gameId # currentGameId
             /\ HandleGuess(c, gameId, guess, correct))
               => LET sender == connectionToUserId[c]
                  IN  /\ currentGameId' = gameId
                      /\ currentGameStats' = <<[userId |-> sender,
                                                answerValue |-> guess]>>
                      /\ correctAnswer' = correct
                      /\ users'[sender].hasReplied
                      /\ users'[sender].replyOption = guess
                      /\ \A u \in DOMAIN users' \ {sender} :
                            ~users'[u].hasReplied /\ users'[u].replyOption = Null
                      /\ \/ roomStatus' = "in_progress"
                         \/ /\ roomStatus' = "completed"
                            /\ OnlineUserIds(users') = {sender}]_vars

\* a guess for the other game, without a correct answer, has just restarted
\* a room of two online participants that had completed a round
C28_Witness ==
    /\ lastOp = "guess-new-game"
    /\ currentGameId = "g2"
    /\ Len(currentGameStats) = 1
    /\ Cardinality(OnlineUserIds(users)) = 2
    /\ correctAnswer = Null
    /\ roomStatus = "in_progress"
    /\ leaderboard # EmptyMap

\* C29: when a vote session resolves and no candidate game id is stored for
\* the selected option, the current game id stays as it was, that id is the
\* one scheduled for the announcement, and the announcement carries the id
\* that was scheduled.
C29_NoCandidateKeepsGame ==
    [][/\ (lastOp' = "vote-resolved" /\ nextGameIds'[selectedNextGame'] = Null) =>
             /\ currentGameId' = currentGameId
             /\ activationTimer'.gameId = currentGameId
       /\ lastOp' = "activation" =>
             \A m \in sent' : m.gameId = activationTimer.gameId]_vars

\* the activation of a session resolved without a candidate id has just
\* announced the game the room was already on
C29_Witness ==
    /\ lastOp = "activation"
    /\ currentGameId = "g1"
    /\ sent # {}
    /\ \A m \in sent : m.type = "next-game-selected" /\ m.gameId = "g1"

\* C30: while the room exists, a stored correct answer changes only in a step
\* that starts a new round (the current game id changes) or resolves a vote
\* session; a later guess of the same round that carries another correct
\* answer leaves the stored one as it is.
C30_CorrectAnswerKept ==
    [][(roomExists /\ roomExists' /\ correctAnswer # Null
          /\ correctAnswer' # correctAnswer)
         => (currentGameId' # currentGameId \/ lastOp' = "vote-resolved")]_vars

\* a guess of the running round carried a2 as the correct answer while a1
\* was stored, and a1 is still stored
C30_Witness ==
    /\ lastOp \in {"guess", "guess-completes"}
    /\ droppedCorrect = "a2"
    /\ correctAnswer = "a1"
    /\ Len(currentGameStats) = 2

\* the online participants of us whose recorded vote is option o
RecordedVoters(us, o) == {u \in OnlineUserIds(us) : us[u].nextGameVote = o}

\* C31: while the room exists and no vote activation is pending, the tally of
\* each option (a missing tally counting as zero) is the number of online
\* participants whose recorded vote is that option.
C31_TallyMatchesOnlineVotes ==
    (roomExists /\ activationTimer = NoActivation) =>
        \A o \in VoteOptions :
            VoteCount(nextGameVotes[o]) = Cardinality(RecordedVoters(users, o))

\* the users with the vote of the sender of connection c recorded
WithVote(c, option) ==
    [users EXCEPT ![connectionToUserId[c]].nextGameVote = option]

\* C32: when a vote resolves, the selected option is not one that strictly
\* fewer online participants have recorded as their vote than the other
\* option, the vote that resolves the session included.
C32_WinnerReflectsRecordedVotes ==
    [][lastOp' = "vote-resolved" =>
         \A c \in clients, option \in VoteOptions :
            (Accepted(c) /\ HandleNextGameVote(c, option, Null)) =>
               \A other \in VoteOptions :
                  Cardinality(RecordedVoters(WithVote(c, option), selectedNextGame'))
                     >= Cardinality(RecordedVoters(WithVote(c, option), other))]_vars

\* C33: a vote resolves a session only when no other online participant's
\* recorded vote was cast before the last activation ran: every vote that
\* counts toward the quorum was cast since.
C33_QuorumOfFreshVotes ==
    [][lastOp' = "vote-resolved" =>
         \A c \in clients, option \in VoteOptions :
            (Accepted(c) /\ HandleNextGameVote(c, option, Null)) =>
               OnlineUserIds(users) \cap (votedBefore \ {connectionToUserId[c]}) = {}]_vars

\* C34: while the room exists, selectedNextGame is set exactly while the
\* activation of a resolution is pending, and a vote resolves a session only
\* when none is pending, so there is never a second one.
C34_SelectedWhileActivationPending ==
    [][/\ roomExists' =>
             (selectedNextGame' # Null <=> activationTimer' # NoActivation)
       /\ lastOp' = "vote-resolved" =>
             (activationTimer = NoActivation /\ selectedNextGame = Null)]_vars

\* a vote was recorded while an activation was pending, every online user
\* has a vote, and the pending activation is still the only one
C34_Witness ==
    /\ lastOp = "vote"
    /\ AllVoted(users)
    /\ selectedNextGame # Null
    /\ activationTimer # NoActivation

\* C35: the close event of a connection the server evicted, whenever it is
\* delivered, leaves the users, the answers of the round, the vote tallies,
\* the routing entries and the connections of the room as they are.
C35_EvictedCloseIsHarmless ==
    [][lastOp' \in {"close-evicted", "close-stale"} =>
         UNCHANGED <<users, currentGameStats, nextGameVotes, connectionToUserId,
                     clients>>]_vars

\* the close event of an evicted connection was delivered after its
\* participant, online again, recorded an answer and a vote
C35_Witness ==
    /\ lastOp = "close-evicted"
    /\ \E u \in OnlineUserIds(users) :
          /\ u \in StatsUserIds(currentGameStats)
          /\ users[u].nextGameVote # Null

\* C36: while the room exists, every connection of the room that has a
\* routing entry maps to a user that is online.
C36_RoutedMeansOnline ==
    roomExists =>
        \A c \in clients \cap DOMAIN connectionToUserId :
            /\ connectionToUserId[c] \in DOMAIN users
            /\ users[connectionToUserId[c]].isOnline

\* C37: a message of any type from a connection that has no routing entry,
\* or whose user is offline, leaves the room as it is, and nothing is sent
\* to a connection other than the sender.
C37_UnroutedMessageIgnored ==
    [][lastOp' \in {"guess-dropped", "vote-dropped", "user-ready-dropped",
                    "reset-leaderboard"} \cup OtherKinds =>
         \A c \in Senders :
            (/\ ~Accepted(c)
             /\ \/ \E gameId \in IdentityEnv.gameIds, guess \in IdentityEnv.answers,
                       correct \in IdentityEnv.corrects :
                       HandleGuess(c, gameId, guess, correct)
                \/ \E option \in IdentityEnv.options, gameId \in IdentityEnv.voteGameIds :
                       HandleNextGameVote(c, option, gameId)
                \/ \E cleared \in BOOLEAN, nickname \in IdentityEnv.nicknames :
                       HandleUserReady(c, cleared, nickname)
                \/ HandleResetLeaderboard(c)
                \/ \E kind \in OtherKinds : HandleOther(c, kind))
            => (UNCHANGED roomVars /\ \A m \in sent' : m.to = c)]_vars

\* C38: a step that completes a round without changing the current game id
\* credits no participant that was already credited since the room took that
\* game id.
C38_OneCreditPerRoundId ==
    [][(lastOp' = "guess-completes" /\ currentGameId' = currentGameId) =>
         StatsUserIds(currentGameStats') \cap creditedInRound = {}]_vars

\* C39: while the room exists, a user's hasReplied flag is true exactly when
\* the user has an entry in currentGameStats.
C39_FlagMatchesAnswers ==
    roomExists =>
        \A u \in DOMAIN users :
            users[u].hasReplied <=> u \in StatsUserIds(currentGameStats)

\* C40: when two clients that reconnect by themselves hold the same
\* persistent userId, the evictions stop: from some point on no connection
\* is closed in favour of another one.
C40_EvictionsStop ==
    <>[][Cardinality(evicted') <= Cardinality(evicted)]_vars

====
